---- MODULE Spec2Model ----
(***************************************************************************)
(* A model of go-mapbox's base HTTP client (package base) and its tileset  *)
(* client (package tilesets).                                              *)
(*                                                                         *)
(* Strings the caller supplies (token, username, tilesetID, query values)  *)
(* are sequences of one-character strings; the fixed pieces of a format    *)
(* string that hold no URL-reserved character are single atoms.  URLs are  *)
(* built by concatenation exactly as fmt.Sprintf builds them and are read  *)
(* back the way net/url reads them (fragment cut at "#", query cut at "?", *)
(* parameters split at "&" and "=", percent-escapes undone).               *)
(*                                                                         *)
(* The client is single-threaded: one call is in progress at a time.  A    *)
(* call that performs an HTTP round trip is split at the round trip: the   *)
(* request is issued (pc = "wait") and the handler resumes when the server *)
(* answers or the transport fails.                                         *)
(***************************************************************************)
EXTENDS Integers, Sequences, FiniteSets, TLC

VARIABLES base, tileset, pc, op, arg, url, resp, ret, out,
          polls, sleepsSince, sleptSeconds, outstanding

vars == <<base, tileset, pc, op, arg, url, resp, ret, out,
          polls, sleepsSince, sleptSeconds, outstanding>>

\* ---------------------------------------------------------------- bounds

MaxTokenLen == 1
MaxNameLen == 1
MaxPolls == 2

\* ------------------------------------------------------------- constants

statusRateLimitExceeded == 429
StatusUnauthorized == 401
StatusBadRequest == 400
StatusOK == 200
SleepSeconds == 5

BaseURL == <<"https://api.mapbox.com">>
apiName == <<"tilesets">>
apiVersion == <<"v1">>

\* ------------------------------------------------------- caller's strings

TokenChars == {"k", "&"}
NameChars == {"u", "?"}
IDChars == {"t"}

StrUpTo(S, n) == UNION {[1..k -> S] : k \in 0..n}

Tokens == StrUpTo(TokenChars, MaxTokenLen)
Names == StrUpTo(NameChars, MaxNameLen)
TilesetIDs == StrUpTo(IDChars, MaxNameLen)

\* ------------------------------------------------------------ URL reading

\* The index of the first element of s that is in C, 0 if there is none.
FirstIdx(s, C) ==
    IF \E i \in 1..Len(s) : s[i] \in C
    THEN CHOOSE i \in 1..Len(s) : s[i] \in C /\ \A j \in 1..(i-1) : s[j] \notin C
    ELSE 0

Before(s, C) == IF FirstIdx(s, C) = 0 THEN s ELSE SubSeq(s, 1, FirstIdx(s, C) - 1)
After(s, C) == IF FirstIdx(s, C) = 0 THEN <<>> ELSE SubSeq(s, FirstIdx(s, C) + 1, Len(s))

\* url.QueryEscape / url.QueryUnescape on the characters of the model.
EscapeChar(c) == IF c = "&" THEN "%26" ELSE IF c = "?" THEN "%3F" ELSE c
UnescapeChar(c) == IF c = "%26" THEN "&" ELSE IF c = "%3F" THEN "?" ELSE c
QueryEscape(s) == [i \in 1..Len(s) |-> EscapeChar(s[i])]
QueryUnescape(s) == [i \in 1..Len(s) |-> UnescapeChar(s[i])]

\* net/url: the fragment starts at the first "#", the query at the first "?".
RawQuery(u) == After(Before(u, {"#"}), {"?"})
URLPath(u) == Before(Before(u, {"#"}), {"?"})

RECURSIVE Split(_, _)
Split(s, sep) ==
    IF FirstIdx(s, {sep}) = 0 THEN <<s>>
    ELSE <<Before(s, {sep})>> \o Split(After(s, {sep}), sep)

\* url.ParseQuery: the key=value pairs of a raw query, in order, unescaped.
ParsePair(p) == <<QueryUnescape(Before(p, {"="})), QueryUnescape(After(p, {"="}))>>
ParseQuery(q) ==
    LET parts == Split(q, "&")
        kept == SelectSeq(parts, LAMBDA p : p # <<>>)
    IN  [i \in 1..Len(kept) |-> ParsePair(kept[i])]

\* url.Values.Get: the first value of the key, "" when the key is absent.
QueryGet(u, key) ==
    LET ps == ParseQuery(RawQuery(u))
        hit == SelectSeq(ps, LAMBDA p : p[1] = <<key>>)
    IN  IF Len(hit) = 0 THEN <<>> ELSE hit[1][2]

HasParam(u, key) == \E i \in 1..Len(ParseQuery(RawQuery(u))) : ParseQuery(RawQuery(u))[i][1] = <<key>>

IsPrefix(p, s) == Len(p) <= Len(s) /\ SubSeq(s, 1, Len(p)) = p

\* ----------------------------------------------------------- URL building

\* fmt.Sprintf("%s/%s?access_token=%s", BaseURL, path, token)
GetURL(path, token) == BaseURL \o <<"/">> \o path \o <<"?", "access_token", "=">> \o token

\* fmt.Sprintf("%s/%s/?access_token=%s", BaseURL, path, token)
UploadURL(path, token) == BaseURL \o <<"/">> \o path \o <<"/", "?", "access_token", "=">> \o token

\* Tileset.postURL: "tilesets/v1/<username>.<tilesetID>"
postURL(t) == apiName \o <<"/">> \o apiVersion \o <<"/">> \o t.username \o <<".">> \o t.tilesetID

\* UploadGeoJSON's path: "tilesets/v1/sources/<username>/<tilesetID>"
sourcesURL(t) ==
    apiName \o <<"/">> \o apiVersion \o <<"/", "sources", "/">> \o t.username \o <<"/">> \o t.tilesetID

\* url.Values the callers of QueryRequest pass: a function from keys to values.
QueryPaths == {<<"geocoding", "/", "v5">>}
QueryArgs == {<<>>, [k \in {"limit"} |-> <<"&">>], [k \in {"access_token"} |-> <<"?">>]}
KeyOrder == <<"access_token", "limit">>

\* v.Set("access_token", token)
SetToken(v, token) ==
    [k \in DOMAIN v \cup {"access_token"} |-> IF k = "access_token" THEN token ELSE v[k]]

RECURSIVE Join(_)
Join(ps) ==
    IF Len(ps) = 0 THEN <<>>
    ELSE IF Len(ps) = 1 THEN ps[1]
    ELSE ps[1] \o <<"&">> \o Join(Tail(ps))

\* url.Values.Encode: key=value pairs sorted by key, both escaped, joined by "&".
Encode(v) ==
    LET ks == SelectSeq(KeyOrder, LAMBDA k : k \in DOMAIN v)
    IN  Join([i \in 1..Len(ks) |-> <<ks[i], "=">> \o QueryEscape(v[ks[i]])])

\* QueryRequest: the URL is BaseURL/query with its RawQuery replaced by v.Encode().
QueryURL(query, v, token) ==
    URLPath(BaseURL \o <<"/">> \o query) \o <<"?">> \o Encode(SetToken(v, token))

\* ------------------------------------------------------- bodies and JSON

\* A response body: not JSON at all, a JSON object (with its
\* "status" and "message" members, "" when absent, and whether its "id" member is a
\* number instead of a string), or a body whose read fails part way (the bytes read
\* so far are a truncated document).
Body(kind, status, message, idnum) ==
    [kind |-> kind, status |-> status, message |-> message, idnum |-> idnum]
BGarbage == Body("garbage", "", "", FALSE)
BReadErr == Body("readerr", "", "", FALSE)
Obj(status, message, idnum) == Body("object", status, message, idnum)

Bodies ==
    {BGarbage, BReadErr, Obj("", "Not Found", FALSE), Obj("processing", "", FALSE),
     Obj("success", "", FALSE), Obj("failed", "", FALSE), Obj("success", "", TRUE)}

\* The status codes the server answers with: the four the code names, and 404 for
\* every other one.
Codes == {StatusOK, StatusBadRequest, StatusUnauthorized, statusRateLimitExceeded, 404}

\* What a round trip yields: no response at all (a transport failure), or a
\* response with a status code and a body.
NoResp == [st |-> "none", code |-> 0, body |-> BGarbage]
TransportFail == [st |-> "fail", code |-> 0, body |-> BGarbage]
Responses == {TransportFail} \cup [st : {"ok"}, code : Codes, body : Bodies]

\* json.Unmarshal into StatusResponse: invalid JSON or a non-object leaves the
\* struct untouched; a member of the wrong type is skipped, the others are still
\* decoded, and an error is returned.
UnmarshalStatus(b) ==
    IF b.kind # "object" THEN [err |-> TRUE, Status |-> ""]
    ELSE [err |-> b.idnum, Status |-> b.status]

\* json.Unmarshal into MapboxAPIMessage (its only field is Message).
UnmarshalMessage(b) ==
    IF b.kind # "object" THEN [err |-> TRUE, Message |-> ""]
    ELSE [err |-> FALSE, Message |-> b.message]

\* json.Unmarshal into UploadResponse (ID is a string) and into the caller's instance.
UnmarshalUpload(b) == [err |-> b.kind # "object" \/ b.idnum]
UnmarshalInst(b) == [err |-> b.kind # "object" \/ b.idnum, touched |-> b.kind = "object"]

\* ------------------------------------------------------------ return values

NoErr == <<>>
ErrTransport == <<"transport error">>
ErrOpen == <<"open: no such file">>
ErrRead == <<"unexpected EOF">>
ErrDecode == <<"json: cannot unmarshal">>
ErrNoToken == <<"Mapbox API token not found">>
ErrorAPILimitExceeded == <<"ErrorAPILimitExceeded">>
ErrorAPIUnauthorized == <<"ErrorAPIUnauthorized">>
ErrNoMessage == <<"Bad Request (400) - no message">>
ApiError(m) == <<"api error: ", m>>

NilVal == [kind |-> "nil"]
Bytes(b) == [kind |-> "bytes", body |-> b]
Response(r) == [kind |-> "response", code |-> r.code, body |-> r.body]
Decoded(type, b) == [kind |-> type, body |-> b]

\* crash: "none" (the call returned), "panic" (nil dereference), "exit" (log.Fatal).
Ret(val, err) == [val |-> val, err |-> err, crash |-> "none"]
Panic == [val |-> NilVal, err |-> NoErr, crash |-> "panic"]
Exit == [val |-> NilVal, err |-> NoErr, crash |-> "exit"]
NoRet == Ret(NilVal, NoErr)

\* ------------------------------------------------------------ base client

NoBase == [made |-> FALSE, token |-> <<>>, debug |-> FALSE]

\* NewBase: an empty token is refused, any other token is stored; debug starts false.
NewBaseValue(token) ==
    IF token = <<>> THEN NoBase ELSE [made |-> TRUE, token |-> token, debug |-> FALSE]
NewBaseError(token) == IF token = <<>> THEN ErrNoToken ELSE NoErr

\* SetDebug(debug): the assignment is b.debug = true, whatever the argument.
SetDebugValue(b, debug) == [b EXCEPT !.debug = TRUE]

\* SimpleGET: (nil, err) on a transport failure; otherwise the bytes read and a nil
\* error, whatever the status code (a failed read is ignored).
SimpleGET(r) ==
    IF r.st = "fail" THEN Ret(NilVal, ErrTransport) ELSE Ret(Bytes(r.body), NoErr)

\* PostRequest: as SimpleGET.
PostRequest(r) ==
    IF r.st = "fail" THEN Ret(NilVal, ErrTransport) ELSE Ret(Bytes(r.body), NoErr)

\* PostUploadFileRequest once the file is open: client.Do's error is overwritten by
\* ReadAll(response.Body), which dereferences the nil response of a failed round
\* trip; a status other than 200 yields a generic error built from the body.
PostUploadFileRequest(r) ==
    IF r.st = "fail" THEN Panic
    ELSE IF r.code # StatusOK
         THEN IF ~UnmarshalMessage(r.body).err
              THEN Ret(NilVal, ApiError(UnmarshalMessage(r.body).Message))
              ELSE Ret(NilVal, ErrNoMessage)
    ELSE IF r.body.kind = "readerr" THEN Ret(NilVal, ErrRead)
    ELSE Ret(Bytes(r.body), NoErr)

\* QueryRequest as it would be without its check for 401: the response is returned.
QueryRequestWithout401(r) ==
    IF r.st = "fail" THEN Ret(NilVal, ErrTransport)
    ELSE IF r.code = statusRateLimitExceeded THEN Ret(NilVal, ErrorAPILimitExceeded)
    ELSE Ret(Response(r), NoErr)

\* QueryRequest: (nil, err) on a transport failure, the two sentinel errors for 429
\* and 401, and (response, nil) for every other status.
QueryRequest(r) ==
    IF r.st = "fail" THEN Ret(NilVal, ErrTransport)
    ELSE IF r.code = statusRateLimitExceeded THEN Ret(NilVal, ErrorAPILimitExceeded)
    ELSE IF r.code = StatusUnauthorized THEN Ret(NilVal, ErrorAPIUnauthorized)
    ELSE Ret(Response(r), NoErr)

\* What QueryRequest prints: the URL before the round trip, the request and the
\* response after a round trip that yielded a response; all only in debug mode.
QueryPrintsBefore(b) == IF b.debug THEN <<"URL">> ELSE <<>>
QueryPrintsAfter(b, r) == IF b.debug /\ r.st # "fail" THEN <<"Request", "Response">> ELSE <<>>

\* QueryBase as it would be without its branch for 400: the body of a 400 response
\* is decoded into the caller's instance like any other.
QueryBaseOnWithout400(q) ==
    IF q.err # NoErr /\ (q.val = NilVal \/ q.val.code # StatusBadRequest) THEN Ret(NilVal, q.err)
    ELSE IF q.val = NilVal THEN Panic
    ELSE IF q.val.body.kind = "readerr" THEN Ret(NilVal, ErrRead)
    ELSE Ret(IF UnmarshalInst(q.val.body).touched THEN Decoded("inst", q.val.body) ELSE NilVal,
             IF UnmarshalInst(q.val.body).err THEN ErrDecode ELSE NoErr)

\* QueryBase on QueryRequest's result q: val is the caller's instance as far as the
\* body was decoded into it (NilVal: untouched).
QueryBaseOn(q) ==
    IF q.err # NoErr /\ (q.val = NilVal \/ q.val.code # StatusBadRequest) THEN Ret(NilVal, q.err)
    ELSE IF q.val = NilVal THEN Panic
    ELSE IF q.val.body.kind = "readerr" THEN Ret(NilVal, ErrRead)
    ELSE IF q.val.code = StatusBadRequest
         THEN IF ~UnmarshalMessage(q.val.body).err
              THEN Ret(NilVal, ApiError(UnmarshalMessage(q.val.body).Message))
              ELSE Ret(NilVal, ErrNoMessage)
    ELSE Ret(IF UnmarshalInst(q.val.body).touched THEN Decoded("inst", q.val.body) ELSE NilVal,
             IF UnmarshalInst(q.val.body).err THEN ErrDecode ELSE NoErr)

QueryBase(r) == QueryBaseOn(QueryRequest(r))

\* --------------------------------------------------------- tileset client

NewTilesetValue == [username |-> <<>>, tilesetID |-> <<>>]

\* UploadGeoJSON once the file is open: an error of the upload is returned; a body
\* that does not decode ends the process (log.Fatal).
UploadGeoJSON(r) ==
    LET res == PostUploadFileRequest(r)
    IN  IF res.crash # "none" THEN res
        ELSE IF res.err # NoErr THEN Ret(NilVal, res.err)
        ELSE IF UnmarshalUpload(res.val.body).err THEN Exit
        ELSE Ret(Decoded("UploadResponse", res.val.body), NoErr)

\* CreateTileset once the recipe is read: the decode error is dropped.
CreateTileset(r) ==
    LET res == PostRequest(r)
    IN  IF res.err # NoErr THEN Ret(NilVal, res.err)
        ELSE Ret([kind |-> "MapboxAPIMessage", Message |-> UnmarshalMessage(res.val.body).Message],
                 NoErr)

\* PublishTileset: the decode error is dropped.
PublishTileset(r) ==
    LET res == PostRequest(r)
    IN  IF res.err # NoErr THEN Ret(NilVal, res.err)
        ELSE Ret([kind |-> "PublishResponse", Message |-> UnmarshalMessage(res.val.body).Message],
                 NoErr)

\* The pass as it would be if any non-empty status ended the loop.
CheckJobStatusPassAnyStatus(r) ==
    LET res == SimpleGET(r)
        status == UnmarshalStatus(res.val.body).Status
    IN  IF res.err # NoErr THEN [done |-> TRUE, ret |-> Ret(NilVal, res.err), print |-> <<>>]
        ELSE IF status # ""
             THEN [done |-> TRUE, ret |-> Ret(NilVal, NoErr), print |-> <<"Job complete">>]
        ELSE [done |-> FALSE, ret |-> NoRet, print |-> <<status>>]

\* The pass as it would be if a failed job were reported as an error.
CheckJobStatusPassFailedIsError(r) ==
    LET res == SimpleGET(r)
        status == UnmarshalStatus(res.val.body).Status
    IN  IF res.err # NoErr THEN [done |-> TRUE, ret |-> Ret(NilVal, res.err), print |-> <<>>]
        ELSE IF status = "failed"
             THEN [done |-> TRUE, ret |-> Ret(NilVal, <<"job failed">>), print |-> <<"Job failed">>]
        ELSE IF status = "success"
             THEN [done |-> TRUE, ret |-> Ret(NilVal, NoErr), print |-> <<"Job complete">>]
        ELSE [done |-> FALSE, ret |-> NoRet, print |-> <<status>>]

\* The pass as it would be if an unauthorized response ended the loop with the
\* sentinel error.
CheckJobStatusPassStopsOn401(r) ==
    LET res == SimpleGET(r)
        status == UnmarshalStatus(res.val.body).Status
    IN  IF res.err # NoErr THEN [done |-> TRUE, ret |-> Ret(NilVal, res.err), print |-> <<>>]
        ELSE IF r.code = StatusUnauthorized
             THEN [done |-> TRUE, ret |-> Ret(NilVal, ErrorAPIUnauthorized), print |-> <<>>]
        ELSE IF status = "failed"
             THEN [done |-> TRUE, ret |-> Ret(NilVal, NoErr), print |-> <<"Job failed">>]
        ELSE IF status = "success"
             THEN [done |-> TRUE, ret |-> Ret(NilVal, NoErr), print |-> <<"Job complete">>]
        ELSE [done |-> FALSE, ret |-> NoRet, print |-> <<status>>]

\* One pass of CheckJobStatus's loop over the result of its GET: whether the call
\* returns, what it returns, and what it prints.
CheckJobStatusPass(r) ==
    LET res == SimpleGET(r)
        status == UnmarshalStatus(res.val.body).Status
    IN  IF res.err # NoErr THEN [done |-> TRUE, ret |-> Ret(NilVal, res.err), print |-> <<>>]
        ELSE IF status = "failed"
             THEN [done |-> TRUE, ret |-> Ret(NilVal, NoErr), print |-> <<"Job failed">>]
        ELSE IF status = "success"
             THEN [done |-> TRUE, ret |-> Ret(NilVal, NoErr), print |-> <<"Job complete">>]
        ELSE [done |-> FALSE, ret |-> NoRet, print |-> <<status>>]

\* A sleep that backs off linearly with the number of polls.
SleepForBackoff(n) == SleepSeconds * n

\* time.Sleep(5 * time.Second) after the n-th poll.
SleepFor(n) == SleepSeconds

\* ------------------------------------------------------------------ state

\* base, tileset: the Base made by NewBase and the Tileset over it.
\* pc:   "idle" (no call in progress), "wait" (a request is outstanding), and inside
\*       CheckJobStatus "get" (about to poll), "got" (SimpleGET returned), "sleep";
\*       "dead" once the process has crashed or exited.
\* op, arg: the most recent call and its arguments;  url: the URL of its most recent
\*       request;  resp: what that round trip yielded;  ret: what the call returned;
\*       out: what it printed (of CheckJobStatus, the most recent line).
\* polls: GETs issued by the running CheckJobStatus (MaxPolls stands for MaxPolls or
\*       more);  sleepsSince, sleptSeconds: sleeps since its most recent GET (or since
\*       its start);  outstanding: requests issued and not yet answered.
Init ==
    /\ base = NoBase
    /\ tileset = NewTilesetValue
    /\ pc = "idle"
    /\ op = "none"
    /\ arg = <<>>
    /\ url = <<>>
    /\ resp = NoResp
    /\ ret = NoRet
    /\ out = <<>>
    /\ polls = 0
    /\ sleepsSince = 0
    /\ sleptSeconds = 0
    /\ outstanding = 0

pollVars == <<polls, sleepsSince, sleptSeconds>>

\* A call that makes no request: it returns at once.
Returns(name, a, r) ==
    /\ op' = name
    /\ arg' = a
    /\ url' = <<>>
    /\ resp' = NoResp
    /\ ret' = r
    /\ out' = <<>>
    /\ pc' = "idle"
    /\ UNCHANGED <<pollVars, outstanding>>

\* A call that issues its request to u and blocks on the round trip.
Requests(name, a, u, prints) ==
    /\ op' = name
    /\ arg' = a
    /\ url' = u
    /\ resp' = NoResp
    /\ ret' = NoRet
    /\ out' = prints
    /\ pc' = "wait"
    /\ outstanding' = outstanding + 1
    /\ UNCHANGED <<base, tileset, pollVars>>

\* The round trip of the call in progress yields r and the call ends with result res.
Completes(r, res, prints) ==
    /\ resp' = r
    /\ ret' = res
    /\ out' = out \o prints
    /\ pc' = IF res.crash = "none" THEN "idle" ELSE "dead"
    /\ outstanding' = outstanding - 1
    /\ UNCHANGED <<base, tileset, op, arg, url, pollVars>>

NewBase ==
    \E token \in Tokens :
        /\ pc = "idle"
        /\ ~base.made
        /\ base' = NewBaseValue(token)
        /\ Returns("NewBase", token, Ret(NilVal, NewBaseError(token)))
        /\ UNCHANGED tileset

SetDebug ==
    \E debug \in BOOLEAN :
        /\ pc = "idle"
        /\ base.made
        /\ base' = SetDebugValue(base, debug)
        /\ Returns("SetDebug", debug, NoRet)
        /\ UNCHANGED tileset

SetTileset ==
    \E username \in Names, tilesetID \in TilesetIDs :
        /\ pc = "idle"
        /\ base.made
        /\ tileset' = [username |-> username, tilesetID |-> tilesetID]
        /\ Returns("SetTileset", <<username, tilesetID>>, NoRet)
        /\ UNCHANGED base

\* UploadGeoJSON(pathToFile): os.Open fails, or the multipart request is sent.
CallUploadGeoJSON ==
    \E fileOK \in BOOLEAN :
        /\ pc = "idle"
        /\ base.made
        /\ IF fileOK
           THEN Requests("UploadGeoJSON", fileOK, UploadURL(sourcesURL(tileset), base.token), <<>>)
           ELSE Returns("UploadGeoJSON", fileOK, Ret(NilVal, ErrOpen)) /\ UNCHANGED <<base, tileset>>

EndUploadGeoJSON ==
    \E r \in Responses :
        /\ pc = "wait"
        /\ op = "UploadGeoJSON"
        /\ Completes(r, UploadGeoJSON(r),
                     IF PostUploadFileRequest(r).crash = "none" /\ PostUploadFileRequest(r).err = NoErr
                     THEN <<"body">> ELSE <<>>)

CallCreateTileset ==
    \E fileOK \in BOOLEAN :
        /\ pc = "idle"
        /\ base.made
        /\ IF fileOK
           THEN Requests("CreateTileset", fileOK, GetURL(postURL(tileset), base.token), <<>>)
           ELSE Returns("CreateTileset", fileOK, Ret(NilVal, ErrOpen)) /\ UNCHANGED <<base, tileset>>

EndCreateTileset ==
    \E r \in Responses :
        /\ pc = "wait"
        /\ op = "CreateTileset"
        /\ Completes(r, CreateTileset(r), <<>>)

CallPublishTileset ==
    /\ pc = "idle"
    /\ base.made
    /\ Requests("PublishTileset", <<>>, GetURL(postURL(tileset) \o <<"/", "publish">>, base.token), <<>>)

EndPublishTileset ==
    \E r \in Responses :
        /\ pc = "wait"
        /\ op = "PublishTileset"
        /\ Completes(r, PublishTileset(r), IF PostRequest(r).err = NoErr THEN <<"body">> ELSE <<>>)

CallQueryRequest ==
    \E query \in QueryPaths, v \in QueryArgs :
        /\ pc = "idle"
        /\ base.made
        /\ Requests("QueryRequest", <<query, v>>, QueryURL(query, v, base.token),
                    QueryPrintsBefore(base))

EndQueryRequest ==
    \E r \in Responses :
        /\ pc = "wait"
        /\ op = "QueryRequest"
        /\ Completes(r, QueryRequest(r), QueryPrintsAfter(base, r))

CallQueryBase ==
    \E query \in QueryPaths, v \in QueryArgs :
        /\ pc = "idle"
        /\ base.made
        /\ Requests("QueryBase", <<query, v>>, QueryURL(query, v, base.token),
                    QueryPrintsBefore(base))

EndQueryBase ==
    \E r \in Responses :
        /\ pc = "wait"
        /\ op = "QueryBase"
        /\ Completes(r, QueryBase(r), QueryPrintsAfter(base, r))

\* CheckJobStatus: the loop, one action per blocking point.
CallCheckJobStatus ==
    /\ pc = "idle"
    /\ base.made
    /\ op' = "CheckJobStatus"
    /\ arg' = <<>>
    /\ url' = <<>>
    /\ resp' = NoResp
    /\ ret' = NoRet
    /\ out' = <<"Awaiting job completion. This may take some time...">>
    /\ pc' = "get"
    /\ polls' = 0
    /\ sleepsSince' = 0
    /\ sleptSeconds' = 0
    /\ UNCHANGED <<base, tileset, outstanding>>

\* t.base.SimpleGET(t.postURL() + "/status") sends its request.
PollStatus ==
    /\ pc = "get"
    /\ url' = GetURL(postURL(tileset) \o <<"/", "status">>, base.token)
    /\ pc' = "wait"
    /\ outstanding' = outstanding + 1
    /\ polls' = IF polls < MaxPolls THEN polls + 1 ELSE polls
    /\ sleepsSince' = 0
    /\ sleptSeconds' = 0
    /\ UNCHANGED <<base, tileset, op, arg, resp, ret, out>>

\* The round trip ends: SimpleGET has its response, or the transport error.
StatusAnswer ==
    \E r \in Responses :
        /\ pc = "wait"
        /\ op = "CheckJobStatus"
        /\ resp' = r
        /\ pc' = "got"
        /\ outstanding' = outstanding - 1
        /\ UNCHANGED <<base, tileset, op, arg, url, ret, out, pollVars>>

\* The rest of the loop body up to the return or the sleep.
ExamineStatus ==
    /\ pc = "got"
    /\ ret' = CheckJobStatusPass(resp).ret
    /\ out' = CheckJobStatusPass(resp).print
    /\ pc' = IF CheckJobStatusPass(resp).done THEN "idle" ELSE "sleep"
    /\ UNCHANGED <<base, tileset, op, arg, url, resp, pollVars, outstanding>>

Sleep ==
    /\ pc = "sleep"
    /\ sleepsSince' = sleepsSince + 1
    /\ sleptSeconds' = sleptSeconds + SleepFor(polls)
    /\ pc' = "get"
    /\ UNCHANGED <<base, tileset, op, arg, url, resp, ret, out, polls, outstanding>>

CheckJobStatusNext ==
    \/ CallCheckJobStatus
    \/ PollStatus
    \/ StatusAnswer
    \/ ExamineStatus
    \/ Sleep

Next ==
    \/ NewBase
    \/ SetDebug
    \/ SetTileset
    \/ CallUploadGeoJSON
    \/ EndUploadGeoJSON
    \/ CallCreateTileset
    \/ EndCreateTileset
    \/ CallPublishTileset
    \/ EndPublishTileset
    \/ CallQueryRequest
    \/ EndQueryRequest
    \/ CallQueryBase
    \/ EndQueryBase
    \/ CheckJobStatusNext

Spec == Init /\ [][Next]_vars

\* CheckJobStatus alone, on a Base and a Tileset as NewBase and SetTileset leave
\* them.  The client's own steps always go on; nothing obliges the server to answer.
LiveInit ==
    /\ base = NewBaseValue(<<"k">>)
    /\ tileset = [username |-> <<"u">>, tilesetID |-> <<"t">>]
    /\ pc = "idle"
    /\ op = "SetTileset"
    /\ arg = <<<<"u">>, <<"t">>>>
    /\ url = <<>>
    /\ resp = NoResp
    /\ ret = NoRet
    /\ out = <<>>
    /\ polls = 0
    /\ sleepsSince = 0
    /\ sleptSeconds = 0
    /\ outstanding = 0

LiveSpec ==
    /\ LiveInit
    /\ [][CheckJobStatusNext]_vars
    /\ WF_vars(PollStatus)
    /\ WF_vars(ExamineStatus)
    /\ WF_vars(Sleep)

\* --------------------------------------------------------------- properties

\* Call `name` has been through its round trip and has ended.
Done(name) == op = name /\ pc \in {"idle", "dead"} /\ resp.st # "none"

Returned == op = "CheckJobStatus" /\ pc = "idle"

\* The body is a JSON object whose status member is "failed" or "success".
TerminalBody(b) == b.kind = "object" /\ b.status \in {"failed", "success"}
TerminalResult(r) == r.st = "fail" \/ (r.st = "ok" /\ TerminalBody(r.body))

\* C1: CheckJobStatus has returned only if its most recent GET either failed at
\* transport level (and then that error is what it returned) or produced a body
\* whose status decodes to "failed" or "success"; after any other poll result it has
\* not returned but is on its way to the next poll.
C1_ReturnsOnlyOnTerminalPoll ==
    /\ Returned => \/ resp.st = "fail" /\ ret.err = ErrTransport
                   \/ resp.st = "ok" /\ TerminalBody(resp.body)
    /\ (op = "CheckJobStatus" /\ pc = "sleep") => resp.st = "ok" /\ ~TerminalBody(resp.body)
    /\ (op = "CheckJobStatus" /\ pc = "get" /\ polls > 0) => resp.st = "ok" /\ ~TerminalBody(resp.body)

\* CheckJobStatus returned on a terminal status after having polled more than once.
C1_Witness == Returned /\ polls >= 2 /\ resp.st = "ok" /\ resp.body.status = "success"

\* C2: a terminal answer (or a transport failure) always leads to the return; an
\* answer that is not terminal never does, however many polls went before, and
\* always leads to another GET.
C2_NoTimeout ==
    /\ (pc = "got" /\ TerminalResult(resp)) ~> Returned
    /\ [][(pc = "got" /\ ~TerminalResult(resp)) => ~Returned']_vars
    /\ (pc = "got" /\ ~TerminalResult(resp)) ~> (pc = "wait")

\* CheckJobStatus is still polling after MaxPolls (or more) unauthorized answers.
C2_Witness ==
    /\ op = "CheckJobStatus" /\ pc = "sleep" /\ polls = MaxPolls
    /\ resp.code = 401 /\ resp.body.status = ""

\* C3: there is never more than one request outstanding; CheckJobStatus issues its
\* first GET without having slept, every later GET after exactly one sleep of 5
\* seconds, and has not slept since its last GET when it returns.
C3_FixedInterval ==
    /\ outstanding \in {0, 1}
    /\ outstanding = 1 <=> pc = "wait"
    /\ op = "CheckJobStatus" =>
        /\ pc = "get" => \/ polls = 0 /\ sleepsSince = 0 /\ sleptSeconds = 0
                         \/ polls > 0 /\ sleepsSince = 1 /\ sleptSeconds = 5
        /\ pc \in {"wait", "got", "sleep", "idle"} => sleepsSince = 0 /\ sleptSeconds = 0

\* CheckJobStatus is about to issue its third (or a later) GET.
C3_Witness == op = "CheckJobStatus" /\ pc = "get" /\ polls >= 2 /\ sleepsSince = 1

\* C9: when CheckJobStatus has returned, its error is nil after any response (a
\* failed job, a successful one, a body whose decoding reported an error) and is the
\* transport error after a failed round trip; it never crashes.
C9_NilForFailedAndSuccess ==
    /\ Returned => /\ ret.crash = "none"
                   /\ ret.val = NilVal
                   /\ resp.st = "ok" => ret.err = NoErr
                   /\ resp.st = "fail" => ret.err # NoErr
    /\ op = "CheckJobStatus" => pc # "dead"

\* CheckJobStatus returned nil for a failed job.
C9_Witness == Returned /\ resp.st = "ok" /\ resp.body.status = "failed" /\ ret.err = NoErr

\* C4: when QueryRequest has ended, a transport failure gave (nil, that error), a 429
\* gave (nil, ErrorAPILimitExceeded), a 401 gave (nil, ErrorAPIUnauthorized), any
\* other status gave (the response, nil); an error never comes with a response.
C4_QueryRequestOutcomes ==
    Done("QueryRequest") =>
        /\ ret.crash = "none"
        /\ resp.st = "fail" => ret.val = NilVal /\ ret.err = ErrTransport
        /\ (resp.st = "ok" /\ resp.code = 429) => ret.val = NilVal /\ ret.err = ErrorAPILimitExceeded
        /\ (resp.st = "ok" /\ resp.code = 401) => ret.val = NilVal /\ ret.err = ErrorAPIUnauthorized
        /\ (resp.st = "ok" /\ resp.code \notin {401, 429}) =>
               /\ ret.err = NoErr
               /\ ret.val = [kind |-> "response", code |-> resp.code, body |-> resp.body]
        /\ ret.err # NoErr => ret.val = NilVal

\* QueryRequest answered a 401 with the sentinel error, and a 404 with the response.
C4_Witness ==
    /\ Done("QueryRequest")
    /\ \/ resp.code = 401 /\ ret.err = ErrorAPIUnauthorized
       \/ resp.code = 404 /\ ret.err = NoErr /\ ret.val # NilVal

\* The sentinel error every operation would return for a 429 or a 401.
SentinelFor(code) == IF code = 429 THEN ErrorAPILimitExceeded ELSE ErrorAPIUnauthorized

\* C5 (as claimed): a 429 or 401 answer to CreateTileset, PublishTileset,
\* UploadGeoJSON or a poll of CheckJobStatus reaches the caller as the sentinel
\* error, never as a result with a nil error (nor as a further poll).
C5_SentinelsOnEveryOperation ==
    /\ \A name \in {"CreateTileset", "PublishTileset", "UploadGeoJSON"} :
           (Done(name) /\ resp.st = "ok" /\ resp.code \in {401, 429}) =>
               ret.err = SentinelFor(resp.code)
    /\ (op = "CheckJobStatus" /\ pc \in {"idle", "sleep"} /\ resp.st = "ok" /\ resp.code \in {401, 429}) =>
           pc = "idle" /\ ret.err = SentinelFor(resp.code)

\* The body decodes into a MapboxAPIMessage: it is a JSON object.
DecodesAsMessage(b) == b.kind = "object"
\* The body decodes into the caller's instance without error.
DecodesAsInst(b) == b.kind = "object" /\ ~b.idnum

\* What the claim says of a QueryBase that got a response with status 400.
QueryBase400AsClaimed ==
    (resp.st = "ok" /\ resp.code = 400) =>
        /\ ret.val = NilVal
        /\ ret.err = IF DecodesAsMessage(resp.body)
                     THEN <<"api error: ", resp.body.message>>
                     ELSE <<"Bad Request (400) - no message">>

\* What holds of it: the read error comes first.
QueryBase400Amended ==
    (resp.st = "ok" /\ resp.code = 400) =>
        /\ ret.val = NilVal
        /\ ret.err = IF resp.body.kind = "readerr" THEN ErrRead
                     ELSE IF DecodesAsMessage(resp.body)
                     THEN <<"api error: ", resp.body.message>>
                     ELSE <<"Bad Request (400) - no message">>

\* The parts of the claim about QueryRequest's errors and about the other statuses.
QueryBaseOthers ==
    /\ ret.crash = "none"
    /\ resp.st = "fail" => ret.val = NilVal /\ ret.err = ErrTransport
    /\ (resp.st = "ok" /\ resp.code \in {401, 429}) =>
           ret.val = NilVal /\ ret.err = SentinelFor(resp.code)
    /\ (resp.st = "ok" /\ resp.code \notin {400, 401, 429}) =>
           /\ ret.err = NoErr <=> DecodesAsInst(resp.body)
           /\ ret.val # NilVal => ret.val = [kind |-> "inst", body |-> resp.body]
           /\ resp.body.kind = "readerr" => ret.err = ErrRead /\ ret.val = NilVal

\* C6 (as claimed): a 400 yields "api error: <message>" when the body decodes as a
\* message object and "Bad Request (400) - no message" otherwise, and nothing is
\* decoded into the instance; an error of QueryRequest is returned as it is, without
\* a crash; any other response is decoded into the instance, nil iff that succeeds.
C6_QueryBaseAsClaimed == Done("QueryBase") => QueryBase400AsClaimed /\ QueryBaseOthers

\* C6 (amended): as claimed, except that a response whose body cannot be read yields
\* the read error, for a 400 as for any other status that reaches the read.
C6_QueryBaseAmended == Done("QueryBase") => QueryBase400Amended /\ QueryBaseOthers

\* QueryBase turned a 400 with a message body into "api error: <message>".
C6_Witness ==
    /\ Done("QueryBase") /\ resp.code = 400
    /\ resp.body.message = "Not Found" /\ ret.err = <<"api error: ", "Not Found">>

\* C7 (as claimed): UploadGeoJSON always returns: (nil, error) when the file cannot
\* be opened, the round trip fails, the status is not 200 or the body of a 200 does
\* not decode; (response, nil) only for a 200 whose body decoded.
C7_UploadAlwaysReturns ==
    /\ op = "UploadGeoJSON" => pc # "dead"
    /\ (op = "UploadGeoJSON" /\ pc = "idle") =>
        /\ ret.crash = "none"
        /\ (ret.val # NilVal /\ ret.err = NoErr)
               <=> (arg /\ resp.st = "ok" /\ resp.code = 200 /\ DecodesAsInst(resp.body))
        /\ (ret.val = NilVal /\ ret.err # NoErr)
               <=> ~(arg /\ resp.st = "ok" /\ resp.code = 200 /\ DecodesAsInst(resp.body))

\* The operations of the tileset client whose path is postURL, with its suffix.
TilesetPath(name) ==
    apiName \o <<"/">> \o apiVersion \o <<"/">> \o tileset.username \o <<".">> \o tileset.tilesetID
        \o (IF name = "PublishTileset" THEN <<"/", "publish">>
            ELSE IF name = "CheckJobStatus" THEN <<"/", "status">> ELSE <<>>)

\* C8 (as claimed): the Base's token is never empty; every request goes to a URL
\* under https://api.mapbox.com whose access_token parameter is that token; the
\* requests of CreateTileset, PublishTileset and CheckJobStatus have the path
\* tilesets/v1/<username>.<tilesetID> with their suffix.
C8_TokenOnEveryRequest ==
    /\ base.made => base.token # <<>>
    /\ ~base.made => base = NoBase
    /\ url # <<>> =>
        /\ IsPrefix(<<"https://api.mapbox.com", "/">>, url)
        /\ QueryGet(url, "access_token") = base.token
        /\ op \in {"CreateTileset", "PublishTileset", "CheckJobStatus"} =>
               URLPath(url) = <<"https://api.mapbox.com", "/">> \o TilesetPath(op)

\* C8, the part about the token itself: no call changes the token of a Base.
C8_TokenNeverChanges == [][base.made => base'.made /\ base'.token = base.token]_vars

\* C10 (as claimed): after SetDebug(d) the debug flag is d and the token is as it
\* was; QueryRequest prints only while the flag is set.
C10_SetDebugSetsArgument ==
    /\ op = "SetDebug" => base.debug = arg
    /\ (op \in {"QueryRequest", "QueryBase"} /\ ~base.debug) => out = <<>>

====
